---- MODULE Spec2Model ----
(***************************************************************************)
(* Model of temp_extract.py: read src/index.ts, locate the marker          *)
(* "const js = " + backtick, scan to the first unescaped backtick, write   *)
(* temp_eval.js.  Texts are sequences of characters (strings); indices     *)
(* into a text are Python's (0-based), see At and Slice.                    *)
(***************************************************************************)
EXTENDS Integers, Sequences, FiniteSets, TLC

VARIABLES
    src,        \* content of the file src/index.ts, as stored
    outFile,    \* content of the file temp_eval.js as stored, or NoFile
    linesep,    \* os.linesep of the platform the script runs on
    pc,         \* position of the running script
    data,       \* line 3
    start,      \* line 5
    i,          \* line 6
    out,        \* line 7
    escaped,    \* line 8
    ch,         \* line 10
    content,    \* line 21
    err,        \* the exception that ended the run, or "none"
    wrote,      \* TRUE once this run has executed write_text (line 22)
    run,        \* number of the current run of the script
    mode,       \* how the current run was started
    prev        \* how the previous run ended, and temp_eval.js as this run found it

vars == <<src, outFile, linesep, pc, data, start, i, out, escaped, ch,
          content, err, wrote, run, mode, prev>>

----------------------------------------------------------------------------
(* Bounds of the model *)

MaxTokens == 4
MaxRuns == 2

----------------------------------------------------------------------------
(* Characters and texts *)

Backslash == "\\"
\* TLA+ strings cannot hold the grave accent (backtick, U+0060): the
\* character is written as the string "BACKTICK".
Backtick == "BACKTICK"
CR == "\r"
LF == "\n"

\* marker, line 4: const js = followed by a backtick
marker == <<"c", "o", "n", "s", "t", " ", "j", "s", " ", "=", " ", Backtick>>

\* the f-string of line 22 around {content}
Prefix == <<"c", "o", "n", "s", "t", " ", "j", "s", " ", "=", " ", Backtick>>
Closing == <<Backtick, ";", "\n">>
Statement == <<"c", "o", "n", "s", "o", "l", "e", ".", "l", "o", "g",
               "(", "j", "s", ")", ";", "\n">>

\* temp_eval.js does not exist: a value that no text equals
NoFile == <<"NoFile">>
\* a temp_eval.js left from before the first run
Stale == <<"o", "l", "d">>

\* s[k] with Python's 0-based index
At(s, k) == s[k + 1]

\* s[a:b] with 0 <= a, b <= len(s)
Slice(s, a, b) == SubSeq(s, a + 1, b)

\* Mutant of DropLast: s[:], nothing is dropped.
DropNone(s) == s

\* s[:-1]; the empty list stays empty
DropLast(s) == SubSeq(s, 1, Len(s) - 1)

\* True iff sub occurs in s at 0-based index k
OccursAt(s, sub, k) ==
    /\ k >= 0
    /\ k + Len(sub) <= Len(s)
    /\ \A j \in 1..Len(sub) : s[k + j] = sub[j]

\* Mutant of Index: the index of the last occurrence (rindex).
IndexLast(s, sub) ==
    LET hits == {k \in 0..Len(s) : OccursAt(s, sub, k)}
    IN  IF hits = {} THEN -1
        ELSE CHOOSE k \in hits : \A h \in hits : h <= k

\* Mutant of Index: a missing substring gives index 0 instead of an error.
IndexOrZero(s, sub) ==
    LET hits == {k \in 0..Len(s) : OccursAt(s, sub, k)}
    IN  IF hits = {} THEN 0
        ELSE CHOOSE k \in hits : \A h \in hits : k <= h

\* str.index: the lowest index at which sub occurs; -1 stands for the
\* ValueError that str.index raises when there is none.
Index(s, sub) ==
    LET hits == {k \in 0..Len(s) : OccursAt(s, sub, k)}
    IN  IF hits = {} THEN -1
        ELSE CHOOSE k \in hits : \A h \in hits : k <= h

\* Path.read_text: text mode with universal newlines, "\r\n" and a lone
\* "\r" are both read as "\n".
RECURSIVE ReadText(_)
ReadText(f) ==
    IF f = <<>> THEN <<>>
    ELSE IF Head(f) = CR
         THEN IF Len(f) >= 2 /\ f[2] = LF
              THEN <<LF>> \o ReadText(SubSeq(f, 3, Len(f)))
              ELSE <<LF>> \o ReadText(Tail(f))
         ELSE <<Head(f)>> \o ReadText(Tail(f))

\* Path.write_text: text mode, every "\n" is stored as os.linesep.
RECURSIVE WriteText(_, _)
WriteText(t, sep) ==
    IF t = <<>> THEN <<>>
    ELSE (IF Head(t) = LF THEN sep ELSE <<Head(t)>>) \o WriteText(Tail(t), sep)

\* Mutant of Render: the backtick closing the literal is left out.
RenderNoClose(c) == Prefix \o c \o <<";", "\n">> \o Statement

\* Mutant of Render: every backslash of the content is doubled.
RECURSIVE Reescape(_)
Reescape(c) ==
    IF c = <<>> THEN <<>>
    ELSE (IF Head(c) = Backslash THEN <<Backslash, Backslash>> ELSE <<Head(c)>>)
         \o Reescape(Tail(c))

RenderReescape(c) == Prefix \o Reescape(c) \o Closing \o Statement

\* the argument of write_text on line 22
Render(c) == Prefix \o c \o Closing \o Statement

----------------------------------------------------------------------------
(* Inputs: the stored content of src/index.ts *)

Tokens == {<<"a">>, <<Backslash>>, <<Backtick>>, <<CR>>, marker}

RECURSIVE Flatten(_)
Flatten(ts) == IF ts = <<>> THEN <<>> ELSE Head(ts) \o Flatten(Tail(ts))

Inputs == {Flatten(ts) : ts \in UNION {[1..n -> Tokens] : n \in 0..MaxTokens}}

LineSeps == {<<LF>>, <<CR, LF>>}

Terminal == {"done", "failed"}

----------------------------------------------------------------------------
(* The script *)

Init ==
    /\ src \in Inputs
    /\ outFile \in {NoFile, Stale}
    /\ linesep \in LineSeps
    /\ pc = "read"
    /\ data = <<>>
    /\ start = 0
    /\ i = 0
    /\ out = <<>>
    /\ escaped = FALSE
    /\ ch = ""
    /\ content = <<>>
    /\ err = "none"
    /\ wrote = FALSE
    /\ run = 1
    /\ mode = "first"
    /\ prev = [pc |-> "none", err |-> "none", content |-> <<>>, file |-> outFile]

\* line 3
Read ==
    /\ pc = "read"
    /\ data' = ReadText(src)
    /\ pc' = "index"
    /\ UNCHANGED <<src, outFile, linesep, start, i, out, escaped, ch,
                   content, err, wrote, run, mode, prev>>

\* line 5, str.index raises ValueError
MarkerNotFound ==
    /\ pc = "index"
    /\ Index(data, marker) = -1
    /\ pc' = "failed"
    /\ err' = "ValueError"
    /\ UNCHANGED <<src, outFile, linesep, data, start, i, out, escaped, ch,
                   content, wrote, run, mode, prev>>

\* Mutant of Locate: the length of the marker is not added.
LocateAtMarker ==
    /\ pc = "index"
    /\ Index(data, marker) # -1
    /\ start' = Index(data, marker)
    /\ i' = Index(data, marker)
    /\ out' = <<>>
    /\ escaped' = FALSE
    /\ pc' = "while"
    /\ UNCHANGED <<src, outFile, linesep, data, ch, content, err, wrote,
                   run, mode, prev>>

\* lines 5-8
Locate ==
    /\ pc = "index"
    /\ Index(data, marker) # -1
    /\ start' = Index(data, marker) + Len(marker)
    /\ i' = Index(data, marker) + Len(marker)
    /\ out' = <<>>
    /\ escaped' = FALSE
    /\ pc' = "while"
    /\ UNCHANGED <<src, outFile, linesep, data, ch, content, err, wrote,
                   run, mode, prev>>

\* lines 9-11: the loop condition holds
Fetch ==
    /\ pc = "while"
    /\ i < Len(data)
    /\ ch' = At(data, i)
    /\ out' = Append(out, At(data, i))
    /\ pc' = "if_escape"
    /\ UNCHANGED <<src, outFile, linesep, data, start, i, escaped, content,
                   err, wrote, run, mode, prev>>

\* Mutant of NoClosing: no else clause, the end of input ends the loop.
NoClosingFallsThrough ==
    /\ pc = "while"
    /\ ~(i < Len(data))
    /\ pc' = "join"
    /\ UNCHANGED <<src, outFile, linesep, data, start, i, out, escaped, ch,
                   content, err, wrote, run, mode, prev>>

\* lines 9, 19-20: the loop condition fails, the while's else clause raises
NoClosing ==
    /\ pc = "while"
    /\ ~(i < Len(data))
    /\ pc' = "failed"
    /\ err' = "RuntimeError"
    /\ UNCHANGED <<src, outFile, linesep, data, start, i, out, escaped, ch,
                   content, wrote, run, mode, prev>>

\* lines 12-13, 18
Toggle ==
    /\ pc = "if_escape"
    /\ ch = Backslash
    /\ escaped' = ~escaped
    /\ i' = i + 1
    /\ pc' = "while"
    /\ UNCHANGED <<src, outFile, linesep, data, start, out, ch, content,
                   err, wrote, run, mode, prev>>

\* Mutant of Else: the flag is cleared before the test of line 15.
ElseClears ==
    /\ pc = "if_escape"
    /\ ch # Backslash
    /\ escaped' = FALSE
    /\ pc' = "if_delim"
    /\ UNCHANGED <<src, outFile, linesep, data, start, i, out, ch,
                   content, err, wrote, run, mode, prev>>

\* lines 12, 14: not a backslash, control reaches the test of line 15
Else ==
    /\ pc = "if_escape"
    /\ ch # Backslash
    /\ pc' = "if_delim"
    /\ UNCHANGED <<src, outFile, linesep, data, start, i, out, escaped, ch,
                   content, err, wrote, run, mode, prev>>

\* lines 15-16: break, i is not advanced and the else clause is skipped
Break ==
    /\ pc = "if_delim"
    /\ ch = Backtick /\ ~escaped
    /\ pc' = "join"
    /\ UNCHANGED <<src, outFile, linesep, data, start, i, out, escaped, ch,
                   content, err, wrote, run, mode, prev>>

\* Mutant of Clear: line 17 is missing, the flag is kept.
ClearKeepsFlag ==
    /\ pc = "if_delim"
    /\ ~(ch = Backtick /\ ~escaped)
    /\ i' = i + 1
    /\ pc' = "while"
    /\ UNCHANGED <<src, outFile, linesep, data, start, out, escaped, ch,
                   content, err, wrote, run, mode, prev>>

\* lines 15, 17-18
Clear ==
    /\ pc = "if_delim"
    /\ ~(ch = Backtick /\ ~escaped)
    /\ escaped' = FALSE
    /\ i' = i + 1
    /\ pc' = "while"
    /\ UNCHANGED <<src, outFile, linesep, data, start, out, ch, content,
                   err, wrote, run, mode, prev>>

\* line 21
Join ==
    /\ pc = "join"
    /\ content' = DropLast(out)
    /\ pc' = "write"
    /\ UNCHANGED <<src, outFile, linesep, data, start, i, out, escaped, ch,
                   err, wrote, run, mode, prev>>

\* Mutant of Write: the file is opened for appending.
WriteAppend ==
    /\ pc = "write"
    /\ outFile' = (IF outFile = NoFile THEN <<>> ELSE outFile)
                       \o WriteText(Render(content), linesep)
    /\ wrote' = TRUE
    /\ pc' = "done"
    /\ UNCHANGED <<src, linesep, data, start, i, out, escaped, ch, content,
                   err, run, mode, prev>>

\* line 22
Write ==
    /\ pc = "write"
    /\ outFile' = WriteText(Render(content), linesep)
    /\ wrote' = TRUE
    /\ pc' = "done"
    /\ UNCHANGED <<src, linesep, data, start, i, out, escaped, ch, content,
                   err, run, mode, prev>>

Step ==
    \/ Read
    \/ MarkerNotFound
    \/ Locate
    \/ Fetch
    \/ NoClosing
    \/ Toggle
    \/ Else
    \/ Break
    \/ Clear
    \/ Join
    \/ Write

----------------------------------------------------------------------------
(* The script is started again as a new process, after the previous run    *)
(* has ended: on the unchanged src/index.ts, or on a src/index.ts that now *)
(* holds what the previous, successful run stored in temp_eval.js.         *)

Outcome == [pc |-> pc, err |-> err, content |-> content, file |-> outFile]

NewProcess ==
    /\ pc' = "read"
    /\ data' = <<>>
    /\ start' = 0
    /\ i' = 0
    /\ out' = <<>>
    /\ escaped' = FALSE
    /\ ch' = ""
    /\ content' = <<>>
    /\ err' = "none"
    /\ wrote' = FALSE
    /\ run' = run + 1
    /\ prev' = Outcome

RunAgain ==
    /\ pc \in Terminal
    /\ run < MaxRuns
    /\ NewProcess
    /\ mode' = "rerun"
    /\ UNCHANGED <<src, outFile, linesep>>

FeedBack ==
    /\ pc = "done"
    /\ run < MaxRuns
    /\ NewProcess
    /\ src' = outFile
    /\ mode' = "feedback"
    /\ UNCHANGED <<outFile, linesep>>

Next ==
    \/ Step
    \/ RunAgain
    \/ FeedBack

Spec == Init /\ [][Next]_vars

\* The interpreter runs the script to its end: a step that can be taken is.
FairSpec == Spec /\ WF_vars(Step)

----------------------------------------------------------------------------
(* Vocabulary of the properties, defined on texts alone *)

\* the end of the first occurrence of the marker in s, -1 if there is none
FirstMarkerEnd(s) ==
    IF \E k \in 0..Len(s) : OccursAt(s, marker, k)
    THEN (CHOOSE k \in 0..Len(s) :
            /\ OccursAt(s, marker, k)
            /\ \A h \in 0..(k - 1) : ~OccursAt(s, marker, h)) + Len(marker)
    ELSE -1

\* length of the run of consecutive backslashes that ends just before index
\* p of s, counted no further back than index lo
RunBefore(s, p, lo) ==
    LET ks == {k \in 0..(p - lo) : \A j \in 1..k : At(s, p - j) = Backslash}
    IN  CHOOSE k \in ks : \A h \in ks : h <= k

\* index p of s holds a backtick that an even run of backslashes precedes
Unescaped(s, p, lo) ==
    /\ At(s, p) = Backtick
    /\ RunBefore(s, p, lo) % 2 = 0

\* the indices from lo on at which s holds an unescaped backtick
Closers(s, lo) == {p \in lo..(Len(s) - 1) : Unescaped(s, p, lo)}

\* t occurs in s as a contiguous piece
Contains(s, t) == \E k \in 0..Len(s) : OccursAt(s, t, k)

\* the text this run reads
Source == ReadText(src)

----------------------------------------------------------------------------
\* C1: when a run has succeeded, content is exactly data[start .. p-1],
\* start being the end of the first occurrence of the marker and p the
\* smallest index >= start holding a backtick preceded by an even run of
\* backslashes (counted from start); nothing is stripped or re-escaped.
C1_ExtractedRegion ==
    pc \in {"write", "done"} =>
        LET st == FirstMarkerEnd(Source)
        IN  /\ st # -1
            /\ data = Source
            /\ \E p \in Closers(data, st) :
                   /\ \A q \in Closers(data, st) : p <= q
                   /\ content = Slice(data, st, p)

\* a succeeded run whose content keeps an escaped backtick, backslash included
C1_Witness ==
    /\ pc = "done"
    /\ \E k \in 1..(Len(content) - 1) :
           content[k] = Backslash /\ content[k + 1] = Backtick

\* C2: a source text without the marker ends the run failed with the
\* marker-not-found error (ValueError of str.index) before any character is
\* scanned, and temp_eval.js is neither created nor overwritten.
C2_MarkerAbsent ==
    ~Contains(Source, marker) =>
        /\ pc \in {"read", "index", "failed"}
        /\ pc = "failed" => err = "ValueError"
        /\ out = <<>> /\ ch = "" /\ i = 0
        /\ ~wrote
        /\ outFile = prev.file

\* a run failed on a missing marker, the file of before still in place
C2_Witness ==
    /\ pc = "failed"
    /\ err = "ValueError"
    /\ Source # <<>>
    /\ outFile = Stale

\* C3: a source text with the marker but without an unescaped backtick after
\* the first marker ends the run failed with the closing-delimiter-not-found
\* error (RuntimeError), and temp_eval.js is neither created nor overwritten.
C3_DelimiterAbsent ==
    (Contains(Source, marker) /\ Closers(Source, FirstMarkerEnd(Source)) = {}) =>
        /\ pc \notin {"join", "write", "done"}
        /\ pc = "failed" => err = "RuntimeError"
        /\ ~wrote
        /\ outFile = prev.file

\* a run failed at the end of input, where the only backtick after the marker
\* follows an odd run of backslashes
C3_Witness ==
    /\ pc = "failed"
    /\ err = "RuntimeError"
    /\ outFile = Stale
    /\ \E p \in start..(Len(data) - 1) :
           At(data, p) = Backtick /\ RunBefore(data, p, start) % 2 = 1

\* C4: whenever this run has written temp_eval.js the run is in DONE and the
\* file's text is the fixed prefix, the extracted content unchanged, the
\* fixed closing sequence and the fixed statement, in this order; so it
\* begins with the prefix and ends with the statement, empty content included.
C4_OutputShape ==
    wrote =>
        LET text == ReadText(outFile)
            n == Len(text)
        IN  /\ pc = "done"
            /\ outFile # NoFile
            /\ text = Prefix \o content \o Closing \o Statement
            /\ linesep = <<LF>> => outFile = text
            /\ SubSeq(text, 1, Len(Prefix)) = Prefix
            /\ SubSeq(text, n - Len(Statement) + 1, n) = Statement

\* a file written for an empty content
C4_Witness ==
    /\ wrote
    /\ content = <<>>
    /\ Len(outFile) >= Len(Prefix) + Len(Closing) + Len(Statement)

\* C5: a second run on the unchanged source text ends as the first did: the
\* same terminal state and error, and on success the same content and the
\* same stored output, whatever the first run left behind.
C5_SameOutcome ==
    (mode = "rerun" /\ pc \in Terminal) =>
        /\ pc = prev.pc
        /\ err = prev.err
        /\ content = prev.content
        /\ outFile = prev.file

\* a second run that succeeded with a non-empty content
C5_Witness ==
    /\ mode = "rerun"
    /\ pc = "done"
    /\ content # <<>>
    /\ prev.pc = "done"

\* once the marker is located the cursor lies between start and the length
\* of the text, and no more characters are taken than the text has from start
C6_CursorRange ==
    pc \in {"while", "if_escape", "if_delim", "join", "write", "done"} =>
        /\ start = FirstMarkerEnd(data)
        /\ start <= i /\ i <= Len(data)
        /\ Len(out) <= Len(data) - start
        /\ pc \in {"if_escape", "if_delim", "join", "write", "done"} => i < Len(data)

\* within a run the cursor starts at start, never decreases, and advances by
\* exactly one when a character that does not end the scan has been processed
C6_CursorStep ==
    /\ (pc = "index" /\ pc' = "while") => (i' = start' /\ out' = <<>>)
    /\ (run' = run /\ pc # "index") => (i' = i \/ i' = i + 1)
    /\ (pc \in {"if_escape", "if_delim"} /\ pc' = "while") => i' = i + 1
    /\ (pc \in {"if_escape", "if_delim"} /\ pc' # "while") => i' = i
    /\ pc = "while" => i' = i
    /\ (pc \in Terminal /\ run' = run) => pc' = pc

\* C6: every run ends in DONE or in FAILED; the cursor starts at the marker's
\* end, never decreases, advances by one per character that does not end the
\* scan, never exceeds the length of the source text, and at most
\* len(data) - start characters are processed.
C6_Terminates ==
    /\ []C6_CursorRange
    /\ [][C6_CursorStep]_vars
    /\ (pc = "read") ~> (pc \in Terminal)

\* a scan that has processed every character after the marker and ends FAILED
C6_Witness ==
    /\ pc = "failed"
    /\ err = "RuntimeError"
    /\ i = Len(data)
    /\ Len(out) = Len(data) - start
    /\ Len(out) >= 2

\* at the start of an iteration the flag is the parity of the run of
\* backslashes that ends the characters scanned so far; a scan that has
\* stopped has stopped on a backtick that an even run precedes
C7_FlagParity ==
    /\ pc = "while" => (escaped <=> RunBefore(data, i, start) % 2 = 1)
    /\ (pc = "while" /\ i = start) => ~escaped
    /\ pc = "join" => (At(data, i) = Backtick /\ RunBefore(data, i, start) # 1)

\* a backslash toggles the flag, any other character that does not end the
\* scan resets it, and a backtick after exactly two backslashes ends the scan
C7_FlagStep ==
    /\ (pc = "if_escape" /\ ch = Backslash) => (escaped' = ~escaped /\ pc' = "while")
    /\ (pc = "if_delim" /\ pc' = "while") => ~escaped'
    /\ (pc = "if_delim" /\ ch = Backtick /\ RunBefore(data, i, start) = 1)
           => pc' = "while"
    /\ (pc = "if_delim" /\ ch = Backtick /\ RunBefore(data, i, start) = 2)
           => pc' = "join"

\* C7: at the start of every scan iteration the escape flag is true iff the
\* characters scanned so far end in an odd run of backslashes: a backslash
\* toggles it, any other non-terminating character resets it, it is false at
\* the first scanned character; so a backtick after exactly one backslash
\* does not end the scan and a backtick after exactly two does.
C7_EscapeFlag == []C7_FlagParity /\ [][C7_FlagStep]_vars

\* a scan ended by a backtick that exactly two backslashes precede
C7_Witness ==
    /\ pc = "join"
    /\ RunBefore(data, i, start) = 2

\* C8 as stated: when a character that is not the escape character is
\* processed, the escape flag is already cleared when the test for an
\* unescaped delimiter is made.
C8_ClearedBeforeTest == pc = "if_delim" => ~escaped

\* what the test for the delimiter reads and when the flag is cleared
C8_TestStep ==
    /\ (pc = "if_escape" /\ pc' = "if_delim") => escaped' = escaped
    /\ pc = "if_delim" =>
           /\ pc' = "join" <=> (ch = Backtick /\ ~escaped)
           /\ pc' = "join" => escaped' = escaped
           /\ pc' # "join" => (pc' = "while" /\ ~escaped')

\* C8 amended: when a character that is not the escape character is
\* processed, the test for an unescaped delimiter reads the escape flag as
\* it stood at the start of the iteration (the parity of the backslashes just
\* before the character); the flag is cleared after the test, and only when
\* the character does not end the scan.
C8_TestThenClear ==
    /\ [](pc = "if_delim" => (escaped <=> RunBefore(data, i, start) % 2 = 1))
    /\ [][C8_TestStep]_vars

\* the test is about to be made on an escaped backtick, the flag still set
C8_Witness ==
    /\ pc = "if_delim"
    /\ ch = Backtick
    /\ escaped

\* C9: a run on the text a successful run has stored succeeds too, extracts
\* the same content and stores the same text again.
C9_RoundTrip ==
    mode = "feedback" =>
        /\ pc # "failed"
        /\ pc = "done" => (content = prev.content /\ outFile = prev.file)
        /\ pc \in {"index", "while"} => Contains(data, prev.content)

\* such a second run ended, its content holding an escaped backtick
C9_Witness ==
    /\ mode = "feedback"
    /\ pc = "done"
    /\ Len(content) >= 2
    /\ content[1] = Backslash /\ content[2] = Backtick

\* C10: at the start of every iteration out is data[start .. i-1]; when the
\* scan stops on a delimiter at index i, out is data[start .. i], its last
\* element is the backtick and the cursor is still i, so dropping the last
\* element gives data[start .. i-1]; the drop is never applied to an empty
\* list.
C10_Accumulated ==
    /\ pc = "while" => (out = Slice(data, start, i) /\ Len(out) = i - start)
    /\ pc \in {"if_escape", "if_delim"} => (out = Slice(data, start, i + 1) /\ ch = At(data, i))
    /\ pc = "join" =>
           /\ out = Slice(data, start, i + 1)
           /\ Len(out) >= 1
           /\ out[Len(out)] = Backtick
           /\ At(data, i) = Backtick
    /\ pc \in {"write", "done"} =>
           /\ content = Slice(data, start, i)
           /\ Len(content) = Len(out) - 1
           /\ out = Append(content, Backtick)

\* the last element has been dropped from a list of several characters
C10_Witness ==
    /\ pc = "write"
    /\ Len(out) >= 3
    /\ out[Len(out) - 1] = Backtick

====
